---------------------------- MODULE Spec2Model ----------------------------
(***************************************************************************)
(* A model of pandoc-filte-rs: the t/c pre-transform convert_entry, the    *)
(* Walkable tree walker, the serializers of types.rs, the derived decoder  *)
(* used by Pandoc::new and the deserialize pipeline (src/src/lib.rs,       *)
(* src/src/types.rs).                                                      *)
(***************************************************************************)
EXTENDS Integers, Sequences, FiniteSets, TLC

VARIABLES
    pc,         \* position of the operation under way
    entry,      \* convert_entry: the argument (a serde_json Value)
    converted,  \* convert_entry: the value returned, or Panic
    node,       \* walk: the Block or Inline walked
    fn,         \* walk: the name of the closure f
    walked,     \* walk: the value returned
    fcalls,     \* walk: the arguments f was called with, in call order
    x,          \* serializer: the typed value handed to to_string
    encoded,    \* serializer: the JSON produced
    decoded,    \* round trip: what Pandoc::new made of encoded
    json,       \* deserialize: what to_json returned
    value,      \* deserialize: the parsed Value
    result,     \* deserialize: what the call ended with
    newCalls    \* deserialize: how often Pandoc::new was entered

vars == <<pc, entry, converted, node, fn, walked, fcalls, x, encoded,
          decoded, json, value, result, newCalls>>

\* The value of a variable the running specification does not use.
None == "none"

-----------------------------------------------------------------------------
(* Bounds of the model. *)

\* Nesting depth of the generated JSON values and document trees.
MaxDepth == 2

\* Longest generated array (the element under test plus siblings).
MaxLen == 2

-----------------------------------------------------------------------------
(* serde_json::Value.  An object is a BTreeMap: its entries are kept as a  *)
(* sequence of <<key, value>> pairs in key order.                          *)

JNull == [k |-> "null"]
JBool(b) == [k |-> "bool", v |-> b]
JNum(n) == [k |-> "num", v |-> n]
JStr(s) == [k |-> "str", v |-> s]
JArr(a) == [k |-> "arr", v |-> a]
JObj(m) == [k |-> "obj", v |-> m]

\* A single-key object {key: val}.
JObj1(key, item) == JObj(<< <<key, item>> >>)

\* The wire form {"t": tag, "c": c} ("c" sorts before "t").
TC(tag, c) == JObj(<< <<"c", c>>, <<"t", JStr(tag)>> >>)

\* The outcome of a call that unwinds (unwrap on None or Err).
Panic == [k |-> "panic"]
IsPanic(r) == r.k = "panic"

\* BTreeMap::get(key).is_some()
HasKey(m, key) == \E i \in 1..Len(m) : m[i][1] = key

\* BTreeMap::get(key).unwrap(), for a key that is present
Get(m, key) == m[CHOOSE i \in 1..Len(m) : m[i][1] = key][2]

-----------------------------------------------------------------------------
(* convert_entry (lib.rs 207-226).                                         *)

RECURSIVE convert_entry(_)

\* A faulty convert_entry: the payload at c is copied, not converted.
convert_entry_shallow(e) ==
    CASE e.k = "obj" ->
            IF ~HasKey(e.v, "t") THEN Panic
            ELSE IF Get(e.v, "t").k # "str" THEN Panic
            ELSE IF ~HasKey(e.v, "c") THEN Panic
            ELSE JObj1(Get(e.v, "t").v, Get(e.v, "c"))
      [] e.k = "arr" ->
            LET array == [i \in 1..Len(e.v) |-> convert_entry(e.v[i])]
            IN  IF \E i \in 1..Len(e.v) : IsPanic(array[i])
                THEN Panic ELSE JArr(array)
      [] OTHER -> e

convert_entry(e) ==
    CASE e.k = "obj" ->
            \* obj.get("t").unwrap().as_str().unwrap()
            IF ~HasKey(e.v, "t") THEN Panic
            ELSE IF Get(e.v, "t").k # "str" THEN Panic
            \* obj.get("c").unwrap()
            ELSE IF ~HasKey(e.v, "c") THEN Panic
            ELSE LET new_c == convert_entry(Get(e.v, "c"))
                 IN  IF IsPanic(new_c) THEN Panic
                     ELSE JObj1(Get(e.v, "t").v, new_c)
      [] e.k = "arr" ->
            LET array == [i \in 1..Len(e.v) |-> convert_entry(e.v[i])]
            IN  IF \E i \in 1..Len(e.v) : IsPanic(array[i])
                THEN Panic ELSE JArr(array)
      [] OTHER -> e

-----------------------------------------------------------------------------
(* The arguments convert_entry is run on.                                  *)

Scalars == {JNull, JBool(TRUE), JNum(1), JStr("Test"), JStr("string")}

\* Objects that lack t, lack c, or whose t is not a string.
Malformed ==
    { JObj(<<>>),
      JObj1("unMeta", JObj(<<>>)),
      JObj1("t", JStr("HorizontalRule")),
      JObj1("c", JStr("Test")),
      JObj(<< <<"c", JStr("Test")>>, <<"t", JNum(1)>> >>) }

\* The array of tests::test_convert_entry_array, and a t/c object with one
\* more key.
Extras ==
    { JArr(<<JStr("Test"), JStr("string")>>),
      JObj(<< <<"c", JStr("Test")>>, <<"t", JStr("Str")>>,
              <<"x", JObj(<<>>)>> >>) }

Tags == {"Str", "Emph"}

\* The sibling put before or after an element of a generated array.
Sibling == TC("Space", JArr(<<>>))

RECURSIVE Siblings(_)
Siblings(n) == IF n = 0 THEN <<>> ELSE <<Sibling>> \o Siblings(n - 1)

Arrays(S) ==
    {JArr(<<>>)} \cup
    { JArr(Siblings(a) \o <<e>> \o Siblings(b)) :
        <<e, a, b>> \in { t \in S \X (0..MaxLen - 1) \X (0..MaxLen - 1) :
                            t[2] + t[3] + 1 <= MaxLen } }

Grow(S) == S \cup { TC(tag, e) : <<tag, e>> \in Tags \X S } \cup Arrays(S)

RECURSIVE Values(_)
Values(d) == IF d = 0 THEN Scalars \cup Malformed \cup Extras
             ELSE Grow(Values(d - 1))

EntryInputs == Values(MaxDepth)

-----------------------------------------------------------------------------
(* Specification of convert_entry as a call.                               *)

InitConvert ==
    /\ pc = "call"
    /\ entry \in EntryInputs
    /\ converted = None
    /\ node = None /\ fn = None /\ walked = None /\ fcalls = None
    /\ x = None /\ encoded = None /\ decoded = None
    /\ json = None /\ value = None /\ result = None /\ newCalls = None

ConvertEntry ==
    /\ pc = "call"
    /\ converted' = convert_entry(entry)
    /\ pc' = "done"
    /\ UNCHANGED <<entry, node, fn, walked, fcalls, x, encoded, decoded,
                   json, value, result, newCalls>>

NextConvert == ConvertEntry

SpecConvert == InitConvert /\ [][NextConvert]_vars

-----------------------------------------------------------------------------
(* Claims about convert_entry.                                             *)

\* Every object reached through arrays and c payloads has a string t and a c.
RECURSIVE TCWellFormed(_)
TCWellFormed(e) ==
    CASE e.k = "obj" -> /\ HasKey(e.v, "t")
                        /\ Get(e.v, "t").k = "str"
                        /\ HasKey(e.v, "c")
                        /\ TCWellFormed(Get(e.v, "c"))
      [] e.k = "arr" -> \A i \in 1..Len(e.v) : TCWellFormed(e.v[i])
      [] OTHER -> TRUE

\* r is e with every t/c object replaced by the single-key object.
RECURSIVE Normalized(_, _)
Normalized(e, r) ==
    CASE e.k = "obj" -> /\ HasKey(e.v, "t")
                        /\ Get(e.v, "t").k = "str"
                        /\ HasKey(e.v, "c")
                        /\ r.k = "obj"
                        /\ Len(r.v) = 1
                        /\ r.v[1][1] = Get(e.v, "t").v
                        /\ Normalized(Get(e.v, "c"), r.v[1][2])
      [] e.k = "arr" -> /\ r.k = "arr"
                        /\ Len(r.v) = Len(e.v)
                        /\ \A i \in 1..Len(e.v) : Normalized(e.v[i], r.v[i])
      [] OTHER -> r = e

\* C1: an object with a string t and a c, at any depth inside arrays and c
\* payloads, is replaced by {t: convert_entry(c)}; arrays keep their length
\* and order, each element transformed.  A value all of whose objects are
\* such objects is converted without a panic; whenever convert_entry returns,
\* what it returns is the input so normalized.
C1_TagContentNormalized ==
    pc = "done" =>
        /\ TCWellFormed(entry) => ~IsPanic(converted)
        /\ ~IsPanic(converted) => Normalized(entry, converted)

\* C1 witness: a t/c object whose c payload is an array holding a scalar
\* and another t/c object has been converted, at both depths.
C1_Witness ==
    /\ pc = "done"
    /\ entry = TC("Emph", JArr(<<JStr("Test"), Sibling>>))
    /\ converted = JObj1("Emph", JArr(<<JStr("Test"),
                                        JObj1("Space", JArr(<<>>))>>))

\* C2 (as claimed): an object with a string t and no c converts to {t: []}.
C2_UnitVariantNormalized ==
    (/\ pc = "done"
     /\ entry.k = "obj"
     /\ HasKey(entry.v, "t")
     /\ ~HasKey(entry.v, "c"))
        => (Get(entry.v, "t").k = "str"
                => converted = JObj1(Get(entry.v, "t").v, JArr(<<>>)))

\* No object with both keys t and c anywhere in e.
RECURSIVE NoTCObject(_)
NoTCObject(e) ==
    CASE e.k = "obj" -> /\ ~(HasKey(e.v, "t") /\ HasKey(e.v, "c"))
                        /\ \A i \in 1..Len(e.v) : NoTCObject(e.v[i][2])
      [] e.k = "arr" -> \A i \in 1..Len(e.v) : NoTCObject(e.v[i])
      [] OTHER -> TRUE

\* C3 (as claimed): a value holding no object with both t and c is returned
\* equal to the input.
C3_PassThrough ==
    (pc = "done" /\ NoTCObject(entry)) => converted = entry

-----------------------------------------------------------------------------
(* The Document Model (lib.rs 58-205).  A value of an enum is a record of  *)
(* its variant name and the tuple of its fields in declared order; a Vec   *)
(* and a tuple are sequences; a Citation is the tuple of its six fields.   *)

Mk(tag, fields) == [tag |-> tag, arg |-> fields]

Str(s) == Mk("Str", <<s>>)
Space == Mk("Space", <<>>)
Emph(is) == Mk("Emph", <<is>>)
Plain(is) == Mk("Plain", <<is>>)
Para(is) == Mk("Para", <<is>>)
HorizontalRule == Mk("HorizontalRule", <<>>)

\* Inline variants whose only field is a Vec<Inline>.
InlineNewtypeVecs ==
    {"Emph", "Strong", "Strikeout", "Superscript", "Subscript", "SmallCaps"}

\* Inline variants whose second field is a Vec<Inline>.
InlineSecondVecs == {"Quoted", "Cite", "Link", "Image", "Span"}

-----------------------------------------------------------------------------
(* Walkable (lib.rs 13-23, 75-113).                                        *)

\* The closures f the walker is run with: the identity, the closure of
\* tests::test_walk_inline, and a constant one.
Fns == {"id", "emph", "space"}

Apply(f, i) ==
    CASE f = "id" -> i
      [] f = "emph" -> Emph(<<i>>)
      [] f = "space" -> Space

\* impl<T> Walkable<T> for T, at T = Inline: f(self).
walk_Inline(i, f) == Apply(f, i)

\* impl Walkable<Inline> for Vec<T>, at T = Inline.
walk_Inlines(is, f) == [j \in 1..Len(is) |-> walk_Inline(is[j], f)]

RECURSIVE walk_Block(_, _)

\* impl Walkable<Inline> for Vec<T>, at T = Block, Vec<Block> and
\* Vec<Vec<Block>>.
walk_Blocks(bs, f) == [j \in 1..Len(bs) |-> walk_Block(bs[j], f)]
walk_VecBlocks(vbs, f) == [j \in 1..Len(vbs) |-> walk_Blocks(vbs[j], f)]
walk_VecVecBlocks(vvbs, f) ==
    [j \in 1..Len(vvbs) |-> walk_VecBlocks(vvbs[j], f)]

\* impl Walkable<Inline> for Block.
walk_Block(b, f) ==
    CASE b.tag = "Plain" -> Mk("Plain", <<walk_Inlines(b.arg[1], f)>>)
      [] b.tag = "Para" -> Mk("Plain", <<walk_Inlines(b.arg[1], f)>>)
      [] b.tag = "BlockQuote" ->
            Mk("BlockQuote", <<walk_Blocks(b.arg[1], f)>>)
      [] b.tag = "OrderedList" ->
            Mk("OrderedList", <<b.arg[1], walk_VecBlocks(b.arg[2], f)>>)
      [] b.tag = "BulletList" ->
            Mk("BulletList", <<walk_VecBlocks(b.arg[1], f)>>)
      [] b.tag = "DefinitionList" ->
            Mk("DefinitionList",
               <<[j \in 1..Len(b.arg[1]) |->
                    <<walk_Inlines(b.arg[1][j][1], f),
                      walk_VecBlocks(b.arg[1][j][2], f)>>]>>)
      [] b.tag = "Header" ->
            Mk("Header", <<b.arg[1], b.arg[2], walk_Inlines(b.arg[3], f)>>)
      [] b.tag = "Table" ->
            Mk("Table", <<walk_Inlines(b.arg[1], f), b.arg[2], b.arg[3],
                          walk_VecBlocks(b.arg[4], f),
                          walk_VecVecBlocks(b.arg[5], f)>>)
      [] b.tag = "Div" -> Mk("Div", <<b.arg[1], walk_Blocks(b.arg[2], f)>>)
      [] OTHER -> b

\* The concatenation of a sequence of sequences.
RECURSIVE Flat(_)
Flat(ss) == IF Len(ss) = 0 THEN <<>> ELSE Head(ss) \o Flat(Tail(ss))

(* The arguments f is called with during a walk, in call order: the walk   *)
(* of a Vec<Inline> calls f on each element and on nothing else.           *)
calls_Inline(i) == <<i>>
calls_Inlines(is) == Flat([j \in 1..Len(is) |-> calls_Inline(is[j])])

RECURSIVE calls_Block(_)
calls_Blocks(bs) == Flat([j \in 1..Len(bs) |-> calls_Block(bs[j])])
calls_VecBlocks(vbs) == Flat([j \in 1..Len(vbs) |-> calls_Blocks(vbs[j])])
calls_VecVecBlocks(vvbs) ==
    Flat([j \in 1..Len(vvbs) |-> calls_VecBlocks(vvbs[j])])

calls_Block(b) ==
    CASE b.tag \in {"Plain", "Para"} -> calls_Inlines(b.arg[1])
      [] b.tag = "BlockQuote" -> calls_Blocks(b.arg[1])
      [] b.tag = "OrderedList" -> calls_VecBlocks(b.arg[2])
      [] b.tag = "BulletList" -> calls_VecBlocks(b.arg[1])
      [] b.tag = "DefinitionList" ->
            Flat([j \in 1..Len(b.arg[1]) |->
                    calls_Inlines(b.arg[1][j][1])
                        \o calls_VecBlocks(b.arg[1][j][2])])
      [] b.tag = "Header" -> calls_Inlines(b.arg[3])
      [] b.tag = "Table" ->
            calls_Inlines(b.arg[1]) \o calls_VecBlocks(b.arg[4])
                \o calls_VecVecBlocks(b.arg[5])
      [] b.tag = "Div" -> calls_Blocks(b.arg[2])
      [] OTHER -> <<>>

-----------------------------------------------------------------------------
(* The document trees the walker and the serializers are run on.           *)

SoftBreak == Mk("SoftBreak", <<>>)
LineBreak == Mk("LineBreak", <<>>)
Null == Mk("Null", <<>>)

\* The Attr of the tests of types.rs, with two classes and two pairs.
AttrSample == <<"test", <<"a", "b">>, << <<"k1", "v1">>, <<"k2", "v2">> >> >>
TargetSample == <<"url", "title">>
ListAttributesSample ==
    <<1, Mk("Decimal", <<>>), Mk("Period", <<>>)>>

\* citation_id, citation_prefix, citation_suffix, citation_mode,
\* citation_note_num, citation_hash
CitationSample ==
    <<"id", <<Str("p")>>, <<>>, Mk("NormalCitation", <<>>), 1, 0>>

InlineLeaves ==
    { Str("a"), Space, SoftBreak, LineBreak,
      Mk("Code", <<AttrSample, "x">>),
      Mk("Math", <<Mk("InlineMath", <<>>), "x">>),
      Mk("RawInline", <<"html", "x">>) }

RECURSIVE Repeat(_, _)
Repeat(e, n) == IF n = 0 THEN <<>> ELSE <<e>> \o Repeat(e, n - 1)

\* The sequences of at most MaxLen elements holding one element of S and
\* copies of the sibling sib around it, and the empty sequence.
Seqs(S, sib) ==
    {<<>>} \cup
    { Repeat(sib, t[2]) \o <<t[1]>> \o Repeat(sib, t[3]) :
        t \in { u \in S \X (0..MaxLen - 1) \X (0..MaxLen - 1) :
                  u[2] + u[3] + 1 <= MaxLen } }

\* One Inline of every variant that holds Inlines, around Str("a").
InlineSamples ==
    { Mk(t, << <<Str("a")>> >>) : t \in InlineNewtypeVecs }
      \cup { Mk("Quoted", <<Mk("DoubleQuote", <<>>), <<Str("a")>> >>),
             Mk("Cite", << <<CitationSample>>, <<Str("a")>> >>),
             Mk("Link", <<AttrSample, <<Str("a")>>, TargetSample>>),
             Mk("Image", <<AttrSample, <<Str("a")>>, TargetSample>>),
             Mk("Span", <<AttrSample, <<Str("a")>> >>) }

\* One more level of nesting: Emph around a sequence, Span and Link around
\* one Inline.
InlineGrow(S) ==
    S \cup { Emph(is) : is \in Seqs(S, Space) }
      \cup { Mk("Span", <<AttrSample, <<e>> >>) : e \in S }
      \cup { Mk("Link", <<AttrSample, <<e>>, TargetSample>>) : e \in S }

RECURSIVE InlineTrees(_)
InlineTrees(d) ==
    IF d = 0 THEN {Str("a"), Space} ELSE InlineGrow(InlineTrees(d - 1))

Inlines == InlineLeaves \cup InlineSamples \cup InlineTrees(MaxDepth)

\* The inline content given to the blocks.
Texts ==
    { <<>>, <<Str("a")>>, <<Str("a"), Space>>, <<Emph(<<Str("a")>>)>>,
      <<Mk("Span", <<AttrSample, <<Emph(<<Str("a")>>)>> >>), Space>> }

BlockLeaves ==
    { HorizontalRule, Null,
      Mk("CodeBlock", <<AttrSample, "x">>),
      Mk("RawBlock", <<"html", "x">>) }
      \cup { Plain(t) : t \in Texts }
      \cup { Para(t) : t \in Texts }
      \cup { Mk("Header", <<1, AttrSample, t>>) : t \in Texts }

\* One Block of every variant that holds Blocks, around the Block e.
BlockSamples(e) ==
    { Mk("BlockQuote", << <<e>> >>),
      Mk("Div", <<AttrSample, <<e>> >>),
      Mk("BulletList", << << <<e>> >> >>),
      Mk("OrderedList", <<ListAttributesSample, << <<e>> >> >>),
      Mk("DefinitionList", << << <<<<Str("a")>>, << <<e>> >> >> >> >>),
      Mk("Table", << <<Str("a")>>, <<Mk("AlignLeft", <<>>)>>, <<0>>,
                     << <<e>> >>, << << <<e>> >> >> >>) }

\* One more level of nesting: BlockQuote around a sequence, Div and
\* BulletList around one Block.
BlockGrow(S) ==
    S \cup { Mk("BlockQuote", <<bs>>) : bs \in Seqs(S, HorizontalRule) }
      \cup { Mk("Div", <<AttrSample, <<e>> >>) : e \in S }
      \cup { Mk("BulletList", << << <<e>> >> >>) : e \in S }

RECURSIVE BlockTrees(_)
BlockTrees(d) ==
    IF d = 0
    THEN {HorizontalRule, Plain(<<Str("a")>>), Para(<<Emph(<<Str("a")>>)>>)}
    ELSE BlockGrow(BlockTrees(d - 1))

Blocks ==
    BlockLeaves
      \cup UNION { BlockSamples(e) :
                     e \in {Plain(<<Str("a")>>), Para(<<Emph(<<Str("a")>>)>>)} }
      \cup BlockTrees(MaxDepth)

\* The sequences of Blocks walked and put in documents.
BlockSeqs == Seqs(BlockTrees(MaxDepth - 1), HorizontalRule)

\* The walked nodes, each with the type it is walked at.
WalkInputs ==
    { <<"Inline", i>> : i \in Inlines }
      \cup { <<"Block", b>> : b \in Blocks }
      \cup { <<"Blocks", bs>> : bs \in BlockSeqs }

-----------------------------------------------------------------------------
(* Specification of walk as a call.                                        *)

InitWalk ==
    /\ pc = "call"
    /\ node \in WalkInputs
    /\ fn \in Fns
    /\ walked = None /\ fcalls = None
    /\ entry = None /\ converted = None
    /\ x = None /\ encoded = None /\ decoded = None
    /\ json = None /\ value = None /\ result = None /\ newCalls = None

WalkInline ==
    /\ pc = "call"
    /\ node[1] = "Inline"
    /\ walked' = walk_Inline(node[2], fn)
    /\ fcalls' = calls_Inline(node[2])
    /\ pc' = "done"
    /\ UNCHANGED <<entry, converted, node, fn, x, encoded, decoded, json,
                   value, result, newCalls>>

WalkBlock ==
    /\ pc = "call"
    /\ node[1] = "Block"
    /\ walked' = walk_Block(node[2], fn)
    /\ fcalls' = calls_Block(node[2])
    /\ pc' = "done"
    /\ UNCHANGED <<entry, converted, node, fn, x, encoded, decoded, json,
                   value, result, newCalls>>

WalkBlocks ==
    /\ pc = "call"
    /\ node[1] = "Blocks"
    /\ walked' = walk_Blocks(node[2], fn)
    /\ fcalls' = calls_Blocks(node[2])
    /\ pc' = "done"
    /\ UNCHANGED <<entry, converted, node, fn, x, encoded, decoded, json,
                   value, result, newCalls>>

NextWalk == WalkInline \/ WalkBlock \/ WalkBlocks

SpecWalk == InitWalk /\ [][NextWalk]_vars

-----------------------------------------------------------------------------
(* Claims about walk.                                                      *)

RECURSIVE SumSeq(_)
SumSeq(ns) == IF Len(ns) = 0 THEN 0 ELSE Head(ns) + SumSeq(Tail(ns))

\* The number of Inline nodes in an Inline, at every depth, itself counted.
RECURSIVE NumInline(_)
NumInlines(is) == SumSeq([j \in 1..Len(is) |-> NumInline(is[j])])
NumInline(i) ==
    1 + ( CASE i.tag \in InlineNewtypeVecs -> NumInlines(i.arg[1])
            [] i.tag = "Cite" ->
                  SumSeq([j \in 1..Len(i.arg[1]) |->
                            NumInlines(i.arg[1][j][2])
                                + NumInlines(i.arg[1][j][3])])
                      + NumInlines(i.arg[2])
            [] i.tag \in InlineSecondVecs \ {"Cite"} -> NumInlines(i.arg[2])
            [] OTHER -> 0 )

\* The number of Inline nodes in a Block, at every depth.
RECURSIVE NumInBlock(_)
NumInBlocks(bs) == SumSeq([j \in 1..Len(bs) |-> NumInBlock(bs[j])])
NumInVecBlocks(vbs) == SumSeq([j \in 1..Len(vbs) |-> NumInBlocks(vbs[j])])
NumInBlock(b) ==
    CASE b.tag \in {"Plain", "Para"} -> NumInlines(b.arg[1])
      [] b.tag = "BlockQuote" -> NumInBlocks(b.arg[1])
      [] b.tag = "OrderedList" -> NumInVecBlocks(b.arg[2])
      [] b.tag = "BulletList" -> NumInVecBlocks(b.arg[1])
      [] b.tag = "DefinitionList" ->
            SumSeq([j \in 1..Len(b.arg[1]) |->
                      NumInlines(b.arg[1][j][1])
                          + NumInVecBlocks(b.arg[1][j][2])])
      [] b.tag = "Header" -> NumInlines(b.arg[3])
      [] b.tag = "Table" ->
            NumInlines(b.arg[1]) + NumInVecBlocks(b.arg[4])
                + SumSeq([j \in 1..Len(b.arg[5]) |->
                            NumInVecBlocks(b.arg[5][j])])
      [] b.tag = "Div" -> NumInBlocks(b.arg[2])
      [] OTHER -> 0

NumInNode(n) ==
    CASE n[1] = "Inline" -> NumInline(n[2])
      [] n[1] = "Block" -> NumInBlock(n[2])
      [] n[1] = "Blocks" -> NumInBlocks(n[2])

\* The bottom-up rewriting of an Inline: the children first, then f on the
\* Inline rebuilt around them.
RECURSIVE BottomUp(_, _)
BottomUpSeq(is, f) == [j \in 1..Len(is) |-> BottomUp(is[j], f)]
BottomUp(i, f) ==
    Apply(f,
      CASE i.tag \in InlineNewtypeVecs ->
              Mk(i.tag, <<BottomUpSeq(i.arg[1], f)>>)
        [] i.tag = "Cite" ->
              Mk(i.tag,
                 <<[j \in 1..Len(i.arg[1]) |->
                      [i.arg[1][j] EXCEPT
                         ![2] = BottomUpSeq(i.arg[1][j][2], f),
                         ![3] = BottomUpSeq(i.arg[1][j][3], f)]],
                   BottomUpSeq(i.arg[2], f)>>)
        [] i.tag \in InlineSecondVecs \ {"Cite"} ->
              Mk(i.tag, [i.arg EXCEPT ![2] = BottomUpSeq(i.arg[2], f)])
        [] OTHER -> i)

\* C5 (as claimed): walk passes every Inline reachable from the node, at
\* every depth, to f exactly once, and an Inline is rewritten bottom-up,
\* after the Inlines nested inside it.
C5_EveryInlineWalked ==
    pc = "done" =>
        /\ Len(fcalls) = NumInNode(node)
        /\ node[1] = "Inline" => walked = BottomUp(node[2], fn)

\* A Block with each Vec<Inline> replaced by its length: the variant, the
\* fields that are not Inlines, and the child Blocks in order.
RECURSIVE Frame(_)
FrameBlocks(bs) == [j \in 1..Len(bs) |-> Frame(bs[j])]
FrameVecBlocks(vbs) == [j \in 1..Len(vbs) |-> FrameBlocks(vbs[j])]
Frame(b) ==
    CASE b.tag \in {"Plain", "Para"} -> Mk(b.tag, <<Len(b.arg[1])>>)
      [] b.tag = "BlockQuote" -> Mk(b.tag, <<FrameBlocks(b.arg[1])>>)
      [] b.tag = "OrderedList" ->
            Mk(b.tag, <<b.arg[1], FrameVecBlocks(b.arg[2])>>)
      [] b.tag = "BulletList" -> Mk(b.tag, <<FrameVecBlocks(b.arg[1])>>)
      [] b.tag = "DefinitionList" ->
            Mk(b.tag, <<[j \in 1..Len(b.arg[1]) |->
                           <<Len(b.arg[1][j][1]),
                             FrameVecBlocks(b.arg[1][j][2])>>]>>)
      [] b.tag = "Header" ->
            Mk(b.tag, <<b.arg[1], b.arg[2], Len(b.arg[3])>>)
      [] b.tag = "Table" ->
            Mk(b.tag, <<Len(b.arg[1]), b.arg[2], b.arg[3],
                        FrameVecBlocks(b.arg[4]),
                        [j \in 1..Len(b.arg[5]) |->
                            FrameVecBlocks(b.arg[5][j])]>>)
      [] b.tag = "Div" -> Mk(b.tag, <<b.arg[1], FrameBlocks(b.arg[2])>>)
      [] OTHER -> b

\* C6 (as claimed): walking a Block keeps its variant, its fields that are
\* not Inlines and the number and order of its child Blocks and Inline
\* positions; HorizontalRule, Null, CodeBlock and RawBlock come back equal,
\* and so does every Block walked with the identity.
C6_BlockFramePreserved ==
    (pc = "done" /\ node[1] = "Block") =>
        /\ walked.tag = node[2].tag
        /\ Frame(walked) = Frame(node[2])
        /\ node[2].tag \in {"HorizontalRule", "Null", "CodeBlock", "RawBlock"}
              => walked = node[2]
        /\ fn = "id" => walked = node[2]

-----------------------------------------------------------------------------
(* The serializers of types.rs, as the Value that the text written by      *)
(* serde_json::to_string parses to.                                        *)

\* A faulty unit arm: the variant name alone is written.
serialize_unit_bare(name) == JStr(name)

\* serialize_enum!, unit arm: a map of one entry, the name to an empty Vec.
serialize_unit(name) == JObj1(name, JArr(<<>>))

\* serialize_enum!, newtype arm: serialize_newtype_variant.
serialize_newtype(name, item) == JObj1(name, item)

\* serialize_enum!, tuple arm: serialize_tuple_variant and its elements.
serialize_tuple(name, items) == JObj1(name, JArr(items))

\* #[derive(Serialize)] on an enum: a unit variant is written as its name
\* (tests::serialize_block, tests::serialize_citation_mode).
derive_unit(name) == JStr(name)
derive_newtype(name, item) == JObj1(name, item)
derive_tuple(name, items) == JObj1(name, JArr(items))

\* The enums declared by serialize_enum! with unit variants only.
ListNumberStyles ==
    {"DefaultStyle", "Example", "Decimal", "LowerRoman", "UpperRoman",
     "LowerAlpha", "UpperAlpha"}
ListNumberDelims == {"DefaultDelim", "Period", "OneParen", "TwoParens"}
Alignments == {"AlignLeft", "AlignRight", "AlignCenter", "AlignDefault"}
QuoteTypes == {"SingleQuote", "DoubleQuote"}
MathTypes == {"DisplayMath", "InlineMath"}
CitationModes == {"AuthorInText", "SuppressAuthor", "NormalCitation"}

\* The unit variants of Inline and of Block.
InlineUnits == {"Space", "SoftBreak", "LineBreak"}
BlockUnits == {"HorizontalRule", "Null"}

\* ListNumberStyle, ListNumberDelim, Alignment, QuoteType, MathType.
EncUnitEnum(e) == serialize_unit(e.tag)

\* CitationMode: #[derive(Serialize)].
EncCitationMode(m) == derive_unit(m.tag)

EncStrings(ss) == JArr([j \in 1..Len(ss) |-> JStr(ss[j])])

\* Attr = (String, Vec<String>, Vec<(String, String)>)
EncAttr(a) ==
    JArr(<<JStr(a[1]), EncStrings(a[2]),
           JArr([j \in 1..Len(a[3]) |-> EncStrings(a[3][j])])>>)

\* Target = (String, String)
EncTarget(t) == EncStrings(t)

\* ListAttributes = (u64, ListNumberStyle, ListNumberDelim)
EncListAttributes(l) ==
    JArr(<<JNum(l[1]), EncUnitEnum(l[2]), EncUnitEnum(l[3])>>)

RECURSIVE EncInline(_)
EncInlines(is) == JArr([j \in 1..Len(is) |-> EncInline(is[j])])

\* Citation: a struct, written as a map of its renamed fields.
EncCitation(c) ==
    JObj(<< <<"citationHash", JNum(c[6])>>,
            <<"citationId", JStr(c[1])>>,
            <<"citationNoteNum", JNum(c[5])>>,
            <<"citationPrefix", EncInlines(c[2])>>,
            <<"citationSuffix", EncInlines(c[3])>>,
            <<"citationmode", EncCitationMode(c[4])>> >>)

\* Inline: serialize_enum!(Inline, units, newtypes, tuples).
EncInline(i) ==
    CASE i.tag \in InlineUnits -> serialize_unit(i.tag)
      [] i.tag = "Str" -> serialize_newtype(i.tag, JStr(i.arg[1]))
      [] i.tag \in InlineNewtypeVecs ->
            serialize_newtype(i.tag, EncInlines(i.arg[1]))
      [] i.tag = "Quoted" ->
            serialize_tuple(i.tag,
                <<EncUnitEnum(i.arg[1]), EncInlines(i.arg[2])>>)
      [] i.tag = "Cite" ->
            serialize_tuple(i.tag,
                <<JArr([j \in 1..Len(i.arg[1]) |-> EncCitation(i.arg[1][j])]),
                  EncInlines(i.arg[2])>>)
      [] i.tag = "Code" ->
            serialize_tuple(i.tag, <<EncAttr(i.arg[1]), JStr(i.arg[2])>>)
      [] i.tag = "Math" ->
            serialize_tuple(i.tag, <<EncUnitEnum(i.arg[1]), JStr(i.arg[2])>>)
      [] i.tag = "RawInline" ->
            serialize_tuple(i.tag, <<JStr(i.arg[1]), JStr(i.arg[2])>>)
      [] i.tag \in {"Link", "Image"} ->
            serialize_tuple(i.tag,
                <<EncAttr(i.arg[1]), EncInlines(i.arg[2]),
                  EncTarget(i.arg[3])>>)
      [] i.tag = "Span" ->
            serialize_tuple(i.tag, <<EncAttr(i.arg[1]), EncInlines(i.arg[2])>>)

RECURSIVE EncBlock(_)
EncBlocks(bs) == JArr([j \in 1..Len(bs) |-> EncBlock(bs[j])])
EncVecBlocks(vbs) == JArr([j \in 1..Len(vbs) |-> EncBlocks(vbs[j])])

\* Block: #[derive(Serialize)].
EncBlock(b) ==
    CASE b.tag \in BlockUnits -> derive_unit(b.tag)
      [] b.tag \in {"Plain", "Para"} ->
            derive_newtype(b.tag, EncInlines(b.arg[1]))
      [] b.tag = "CodeBlock" ->
            derive_tuple(b.tag, <<EncAttr(b.arg[1]), JStr(b.arg[2])>>)
      [] b.tag = "RawBlock" ->
            derive_tuple(b.tag, <<JStr(b.arg[1]), JStr(b.arg[2])>>)
      [] b.tag = "BlockQuote" -> derive_newtype(b.tag, EncBlocks(b.arg[1]))
      [] b.tag = "OrderedList" ->
            derive_tuple(b.tag,
                <<EncListAttributes(b.arg[1]), EncVecBlocks(b.arg[2])>>)
      [] b.tag = "BulletList" ->
            derive_newtype(b.tag, EncVecBlocks(b.arg[1]))
      [] b.tag = "DefinitionList" ->
            derive_newtype(b.tag,
                JArr([j \in 1..Len(b.arg[1]) |->
                        JArr(<<EncInlines(b.arg[1][j][1]),
                               EncVecBlocks(b.arg[1][j][2])>>)]))
      [] b.tag = "Header" ->
            derive_tuple(b.tag,
                <<JNum(b.arg[1]), EncAttr(b.arg[2]), EncInlines(b.arg[3])>>)
      [] b.tag = "Table" ->
            derive_tuple(b.tag,
                <<EncInlines(b.arg[1]),
                  JArr([j \in 1..Len(b.arg[2]) |-> EncUnitEnum(b.arg[2][j])]),
                  JArr([j \in 1..Len(b.arg[3]) |-> JNum(b.arg[3][j])]),
                  EncVecBlocks(b.arg[4]),
                  JArr([j \in 1..Len(b.arg[5]) |->
                          EncVecBlocks(b.arg[5][j])])>>)
      [] b.tag = "Div" ->
            derive_tuple(b.tag, <<EncAttr(b.arg[1]), EncBlocks(b.arg[2])>>)

\* MetaValue: #[derive(Serialize)]; a map is a sequence of <<key, MetaValue>>
\* in key order.
RECURSIVE EncMetaValue(_)
EncMetaMap(m) ==
    JObj([j \in 1..Len(m) |-> <<m[j][1], EncMetaValue(m[j][2])>>])
EncMetaValue(m) ==
    CASE m.tag = "MetaMap" -> derive_newtype(m.tag, EncMetaMap(m.arg[1]))
      [] m.tag = "MetaList" ->
            derive_newtype(m.tag,
                JArr([j \in 1..Len(m.arg[1]) |-> EncMetaValue(m.arg[1][j])]))
      [] m.tag = "MetaBool" -> derive_newtype(m.tag, JBool(m.arg[1]))
      [] m.tag = "MetaString" -> derive_newtype(m.tag, JStr(m.arg[1]))
      [] m.tag = "MetaInlines" -> derive_newtype(m.tag, EncInlines(m.arg[1]))
      [] m.tag = "MetaBlocks" -> derive_newtype(m.tag, EncBlocks(m.arg[1]))

\* Meta: a struct of the one field un_meta, renamed unMeta.
EncMeta(m) == JObj1("unMeta", EncMetaMap(m))

\* Pandoc(pub Meta, pub Vec<Block>): a tuple struct, written as an array.
EncPandoc(d) == JArr(<<EncMeta(d[1]), EncBlocks(d[2])>>)

\* serde_json::ser::to_string(&x), x given with its type.
to_string(tx) ==
    CASE tx[1] \in {"ListNumberStyle", "ListNumberDelim", "Alignment",
                    "QuoteType", "MathType"} -> EncUnitEnum(tx[2])
      [] tx[1] = "CitationMode" -> EncCitationMode(tx[2])
      [] tx[1] = "Citation" -> EncCitation(tx[2])
      [] tx[1] = "Inline" -> EncInline(tx[2])
      [] tx[1] = "Block" -> EncBlock(tx[2])
      [] tx[1] = "MetaValue" -> EncMetaValue(tx[2])
      [] tx[1] = "Pandoc" -> EncPandoc(tx[2])

-----------------------------------------------------------------------------
(* serde_json::from_value at the types of lib.rs: #[derive(Deserialize)].  *)
(* A Result is <<"ok", value>> or <<"err">>.                               *)

Ok(item) == <<"ok", item>>
Err == <<"err">>
IsOk(r) == r[1] = "ok"

\* A sequence of Results as the Result of the sequence: the first Err ends
\* the decoding.
Collect(rs) ==
    IF \A j \in 1..Len(rs) : IsOk(rs[j])
    THEN Ok([j \in 1..Len(rs) |-> rs[j][2]])
    ELSE Err

DecString(j) == IF j.k = "str" THEN Ok(j.v) ELSE Err
DecU64(j) == IF j.k = "num" THEN Ok(j.v) ELSE Err
DecF64(j) == IF j.k = "num" THEN Ok(j.v) ELSE Err
DecBool(j) == IF j.k = "bool" THEN Ok(j.v) ELSE Err

DecStrings(j) ==
    IF j.k = "arr" THEN Collect([i \in 1..Len(j.v) |-> DecString(j.v[i])])
    ELSE Err

\* A tuple of n Strings.
DecStringTuple(j, n) ==
    IF j.k = "arr" /\ Len(j.v) = n THEN DecStrings(j) ELSE Err

\* Attr = (String, Vec<String>, Vec<(String, String)>)
DecAttr(j) ==
    IF j.k = "arr" /\ Len(j.v) = 3
    THEN Collect(<<DecString(j.v[1]), DecStrings(j.v[2]),
                   IF j.v[3].k = "arr"
                   THEN Collect([i \in 1..Len(j.v[3].v) |->
                                    DecStringTuple(j.v[3].v[i], 2)])
                   ELSE Err>>)
    ELSE Err

\* Target = (String, String)
DecTarget(j) == DecStringTuple(j, 2)

(* An enum is read from a string (the variant alone) or from an object of  *)
(* one entry (the variant and its content): <<"ok", variant, has content,  *)
(* content>>.                                                              *)
VariantOf(j) ==
    CASE j.k = "str" -> <<"ok", j.v, FALSE, JNull>>
      [] j.k = "obj" /\ Len(j.v) = 1 -> <<"ok", j.v[1][1], TRUE, j.v[1][2]>>
      [] OTHER -> Err

\* The content of a unit variant: none, null or an empty array.
UnitContent(vr) ==
    \/ ~vr[3]
    \/ vr[4].k = "null"
    \/ vr[4].k = "arr" /\ Len(vr[4].v) = 0

\* The content of a tuple variant of n fields: an array of n elements.
TupleContent(vr, n) == vr[3] /\ vr[4].k = "arr" /\ Len(vr[4].v) = n

\* An enum of unit variants only, its variants given.
DecUnitEnum(j, names) ==
    LET vr == VariantOf(j)
    IN  IF IsOk(vr) /\ vr[2] \in names /\ UnitContent(vr)
        THEN Ok(Mk(vr[2], <<>>)) ELSE Err

\* ListAttributes = (u64, ListNumberStyle, ListNumberDelim)
DecListAttributes(j) ==
    IF j.k = "arr" /\ Len(j.v) = 3
    THEN Collect(<<DecU64(j.v[1]), DecUnitEnum(j.v[2], ListNumberStyles),
                   DecUnitEnum(j.v[3], ListNumberDelims)>>)
    ELSE Err

\* An Ok of a variant built from the Result of its fields.
Variant(name, fields) ==
    IF IsOk(fields) THEN Ok(Mk(name, fields[2])) ELSE Err

RECURSIVE DecInline(_)
DecInlines(j) ==
    IF j.k = "arr" THEN Collect([i \in 1..Len(j.v) |-> DecInline(j.v[i])])
    ELSE Err

\* Citation: a struct read from a map holding its six renamed fields.
DecCitation(j) ==
    IF /\ j.k = "obj"
       /\ \A key \in {"citationId", "citationPrefix", "citationSuffix",
                      "citationmode", "citationNoteNum", "citationHash"} :
             HasKey(j.v, key)
    THEN Collect(<<DecString(Get(j.v, "citationId")),
                   DecInlines(Get(j.v, "citationPrefix")),
                   DecInlines(Get(j.v, "citationSuffix")),
                   DecUnitEnum(Get(j.v, "citationmode"), CitationModes),
                   DecU64(Get(j.v, "citationNoteNum")),
                   DecU64(Get(j.v, "citationHash"))>>)
    ELSE Err

DecCitations(j) ==
    IF j.k = "arr" THEN Collect([i \in 1..Len(j.v) |-> DecCitation(j.v[i])])
    ELSE Err

\* enum Inline
DecInline(j) ==
    LET vr == VariantOf(j)
        c == vr[4]
    IN  IF ~IsOk(vr) THEN Err
        ELSE CASE vr[2] \in InlineUnits ->
                    IF UnitContent(vr) THEN Ok(Mk(vr[2], <<>>)) ELSE Err
               [] vr[2] = "Str" ->
                    IF vr[3] THEN Variant(vr[2], Collect(<<DecString(c)>>))
                    ELSE Err
               [] vr[2] \in InlineNewtypeVecs ->
                    IF vr[3] THEN Variant(vr[2], Collect(<<DecInlines(c)>>))
                    ELSE Err
               [] vr[2] = "Quoted" ->
                    IF TupleContent(vr, 2)
                    THEN Variant(vr[2],
                            Collect(<<DecUnitEnum(c.v[1], QuoteTypes),
                                      DecInlines(c.v[2])>>))
                    ELSE Err
               [] vr[2] = "Cite" ->
                    IF TupleContent(vr, 2)
                    THEN Variant(vr[2],
                            Collect(<<DecCitations(c.v[1]),
                                      DecInlines(c.v[2])>>))
                    ELSE Err
               [] vr[2] = "Code" ->
                    IF TupleContent(vr, 2)
                    THEN Variant(vr[2],
                            Collect(<<DecAttr(c.v[1]), DecString(c.v[2])>>))
                    ELSE Err
               [] vr[2] = "Math" ->
                    IF TupleContent(vr, 2)
                    THEN Variant(vr[2],
                            Collect(<<DecUnitEnum(c.v[1], MathTypes),
                                      DecString(c.v[2])>>))
                    ELSE Err
               [] vr[2] = "RawInline" ->
                    IF TupleContent(vr, 2)
                    THEN Variant(vr[2],
                            Collect(<<DecString(c.v[1]), DecString(c.v[2])>>))
                    ELSE Err
               [] vr[2] \in {"Link", "Image"} ->
                    IF TupleContent(vr, 3)
                    THEN Variant(vr[2],
                            Collect(<<DecAttr(c.v[1]), DecInlines(c.v[2]),
                                      DecTarget(c.v[3])>>))
                    ELSE Err
               [] vr[2] = "Span" ->
                    IF TupleContent(vr, 2)
                    THEN Variant(vr[2],
                            Collect(<<DecAttr(c.v[1]), DecInlines(c.v[2])>>))
                    ELSE Err
               [] OTHER -> Err

RECURSIVE DecBlock(_)
DecBlocks(j) ==
    IF j.k = "arr" THEN Collect([i \in 1..Len(j.v) |-> DecBlock(j.v[i])])
    ELSE Err
DecVecBlocks(j) ==
    IF j.k = "arr" THEN Collect([i \in 1..Len(j.v) |-> DecBlocks(j.v[i])])
    ELSE Err
DecVecVecBlocks(j) ==
    IF j.k = "arr" THEN Collect([i \in 1..Len(j.v) |-> DecVecBlocks(j.v[i])])
    ELSE Err

\* Vec<Alignment> and Vec<f64>, each read on its own.
DecAlignments(j) ==
    IF j.k = "arr"
    THEN Collect([i \in 1..Len(j.v) |-> DecUnitEnum(j.v[i], Alignments)])
    ELSE Err
DecWidths(j) ==
    IF j.k = "arr" THEN Collect([i \in 1..Len(j.v) |-> DecF64(j.v[i])])
    ELSE Err

\* Vec<(Vec<Inline>, Vec<Vec<Block>>)>
DecDefinitions(j) ==
    IF j.k = "arr"
    THEN Collect([i \in 1..Len(j.v) |->
                    IF j.v[i].k = "arr" /\ Len(j.v[i].v) = 2
                    THEN Collect(<<DecInlines(j.v[i].v[1]),
                                   DecVecBlocks(j.v[i].v[2])>>)
                    ELSE Err])
    ELSE Err

\* enum Block
DecBlock(j) ==
    LET vr == VariantOf(j)
        c == vr[4]
    IN  IF ~IsOk(vr) THEN Err
        ELSE CASE vr[2] \in BlockUnits ->
                    IF UnitContent(vr) THEN Ok(Mk(vr[2], <<>>)) ELSE Err
               [] vr[2] \in {"Plain", "Para"} ->
                    IF vr[3] THEN Variant(vr[2], Collect(<<DecInlines(c)>>))
                    ELSE Err
               [] vr[2] = "CodeBlock" ->
                    IF TupleContent(vr, 2)
                    THEN Variant(vr[2],
                            Collect(<<DecAttr(c.v[1]), DecString(c.v[2])>>))
                    ELSE Err
               [] vr[2] = "RawBlock" ->
                    IF TupleContent(vr, 2)
                    THEN Variant(vr[2],
                            Collect(<<DecString(c.v[1]), DecString(c.v[2])>>))
                    ELSE Err
               [] vr[2] = "BlockQuote" ->
                    IF vr[3] THEN Variant(vr[2], Collect(<<DecBlocks(c)>>))
                    ELSE Err
               [] vr[2] = "OrderedList" ->
                    IF TupleContent(vr, 2)
                    THEN Variant(vr[2],
                            Collect(<<DecListAttributes(c.v[1]),
                                      DecVecBlocks(c.v[2])>>))
                    ELSE Err
               [] vr[2] = "BulletList" ->
                    IF vr[3] THEN Variant(vr[2], Collect(<<DecVecBlocks(c)>>))
                    ELSE Err
               [] vr[2] = "DefinitionList" ->
                    IF vr[3]
                    THEN Variant(vr[2], Collect(<<DecDefinitions(c)>>))
                    ELSE Err
               [] vr[2] = "Header" ->
                    IF TupleContent(vr, 3)
                    THEN Variant(vr[2],
                            Collect(<<DecU64(c.v[1]), DecAttr(c.v[2]),
                                      DecInlines(c.v[3])>>))
                    ELSE Err
               [] vr[2] = "Table" ->
                    IF TupleContent(vr, 5)
                    THEN Variant(vr[2],
                            Collect(<<DecInlines(c.v[1]),
                                      DecAlignments(c.v[2]),
                                      DecWidths(c.v[3]),
                                      DecVecBlocks(c.v[4]),
                                      DecVecVecBlocks(c.v[5])>>))
                    ELSE Err
               [] vr[2] = "Div" ->
                    IF TupleContent(vr, 2)
                    THEN Variant(vr[2],
                            Collect(<<DecAttr(c.v[1]), DecBlocks(c.v[2])>>))
                    ELSE Err
               [] OTHER -> Err

\* enum MetaValue, and BTreeMap<String, MetaValue>
RECURSIVE DecMetaValue(_)
DecMetaMap(j) ==
    IF j.k = "obj"
    THEN LET rs == [i \in 1..Len(j.v) |-> DecMetaValue(j.v[i][2])]
         IN  IF \A i \in 1..Len(rs) : IsOk(rs[i])
             THEN Ok([i \in 1..Len(rs) |-> <<j.v[i][1], rs[i][2]>>])
             ELSE Err
    ELSE Err
DecMetaValue(j) ==
    LET vr == VariantOf(j)
        c == vr[4]
    IN  IF ~IsOk(vr) \/ ~vr[3] THEN Err
        ELSE CASE vr[2] = "MetaMap" ->
                    Variant(vr[2], Collect(<<DecMetaMap(c)>>))
               [] vr[2] = "MetaList" ->
                    Variant(vr[2],
                        Collect(<<IF c.k = "arr"
                                  THEN Collect([i \in 1..Len(c.v) |->
                                                  DecMetaValue(c.v[i])])
                                  ELSE Err>>))
               [] vr[2] = "MetaBool" -> Variant(vr[2], Collect(<<DecBool(c)>>))
               [] vr[2] = "MetaString" ->
                    Variant(vr[2], Collect(<<DecString(c)>>))
               [] vr[2] = "MetaInlines" ->
                    Variant(vr[2], Collect(<<DecInlines(c)>>))
               [] vr[2] = "MetaBlocks" ->
                    Variant(vr[2], Collect(<<DecBlocks(c)>>))
               [] OTHER -> Err

\* struct Meta { #[serde(rename = "unMeta")] un_meta }
DecMeta(j) ==
    IF j.k = "obj" /\ HasKey(j.v, "unMeta") THEN DecMetaMap(Get(j.v, "unMeta"))
    ELSE Err

\* Pandoc::new(meta, blocks): <<"ok", <<meta, blocks>>>>, or <<"panic">> where
\* an unwrap meets an Err or convert_entry unwinds.
Pandoc_new(meta, blocks) ==
    LET converted_meta == DecMeta(meta)
        entry_blocks == convert_entry(blocks)
        converted_blocks == DecBlocks(entry_blocks)
    IN  IF ~IsOk(converted_meta) THEN <<"panic">>
        ELSE IF IsPanic(entry_blocks) THEN <<"panic">>
        ELSE IF ~IsOk(converted_blocks) THEN <<"panic">>
        ELSE Ok(<<converted_meta[2], converted_blocks[2]>>)

-----------------------------------------------------------------------------
(* Specification of serialization, and of the round trip of a document     *)
(* through to_string and Pandoc::new.                                      *)

UnitEnums(ty, names) == { <<ty, Mk(n, <<>>)>> : n \in names }

\* The MetaValues of tests::serialize_meta_value.
MetaValues ==
    { Mk("MetaString", <<"test">>),
      Mk("MetaBool", <<TRUE>>),
      Mk("MetaInlines", << <<Str("test")>> >>),
      Mk("MetaBlocks", << <<Plain(<<Str("test")>>)>> >>),
      Mk("MetaList", << <<Mk("MetaString", <<"test">>)>> >>),
      Mk("MetaMap", << << <<"test", Mk("MetaString", <<"test">>)>> >> >>) }

Metas ==
    { <<>>,
      << <<"title", Mk("MetaInlines", << <<Str("test")>> >>)>> >>,
      << <<"author", Mk("MetaList", << <<Mk("MetaString", <<"test">>)>> >>)>>,
         <<"draft", Mk("MetaBool", <<TRUE>>)>> >> }

Documents == Metas \X BlockSeqs

CodecInputs ==
    UnitEnums("ListNumberStyle", ListNumberStyles)
      \cup UnitEnums("ListNumberDelim", ListNumberDelims)
      \cup UnitEnums("Alignment", Alignments)
      \cup UnitEnums("QuoteType", QuoteTypes)
      \cup UnitEnums("MathType", MathTypes)
      \cup UnitEnums("CitationMode", CitationModes)
      \cup { <<"Citation", CitationSample>> }
      \cup { <<"Inline", i>> : i \in Inlines }
      \cup { <<"Block", b>> : b \in Blocks }
      \cup { <<"MetaValue", m>> : m \in MetaValues }
      \cup { <<"Pandoc", d>> : d \in Documents }

InitCodec ==
    /\ pc = "call"
    /\ x \in CodecInputs
    /\ encoded = None /\ decoded = None
    /\ entry = None /\ converted = None
    /\ node = None /\ fn = None /\ walked = None /\ fcalls = None
    /\ json = None /\ value = None /\ result = None /\ newCalls = None

Serialize ==
    /\ pc = "call"
    /\ encoded' = to_string(x)
    /\ pc' = "encoded"
    /\ UNCHANGED <<entry, converted, node, fn, walked, fcalls, x, decoded,
                   json, value, result, newCalls>>

\* The document is built back from the two elements written.
Decode ==
    /\ pc = "encoded"
    /\ x[1] = "Pandoc"
    /\ decoded' = Pandoc_new(encoded.v[1], encoded.v[2])
    /\ pc' = "decoded"
    /\ UNCHANGED <<entry, converted, node, fn, walked, fcalls, x, encoded,
                   json, value, result, newCalls>>

\* serde_json::from_value at the type of x: the derived Deserialize alone.
from_value(ty, j) ==
    CASE ty = "ListNumberStyle" -> DecUnitEnum(j, ListNumberStyles)
      [] ty = "ListNumberDelim" -> DecUnitEnum(j, ListNumberDelims)
      [] ty = "Alignment" -> DecUnitEnum(j, Alignments)
      [] ty = "QuoteType" -> DecUnitEnum(j, QuoteTypes)
      [] ty = "MathType" -> DecUnitEnum(j, MathTypes)
      [] ty = "CitationMode" -> DecUnitEnum(j, CitationModes)
      [] ty = "Citation" -> DecCitation(j)
      [] ty = "Inline" -> DecInline(j)
      [] ty = "Block" -> DecBlock(j)
      [] ty = "MetaValue" -> DecMetaValue(j)

\* A value that is not a document is read back by the Deserialize derived
\* for its type.
DecodeValue ==
    /\ pc = "encoded"
    /\ x[1] # "Pandoc"
    /\ decoded' = from_value(x[1], encoded)
    /\ pc' = "decoded"
    /\ UNCHANGED <<entry, converted, node, fn, walked, fcalls, x, encoded,
                   json, value, result, newCalls>>

NextCodec == Serialize \/ Decode \/ DecodeValue

SpecCodec == InitCodec /\ [][NextCodec]_vars

-----------------------------------------------------------------------------
(* Claims about the serializers and the round trip.                        *)

\* C4 (as claimed): a value written by the serializer and read back by the
\* decoder (Pandoc::new for a document, the derived Deserialize for any
\* other value) is equal to the value written.
C4_RoundTrip == pc = "decoded" => decoded = Ok(x[2])

\* C9: every variant of ListNumberStyle, ListNumberDelim, Alignment,
\* QuoteType and MathType, and Space, SoftBreak and LineBreak, is written as
\* the object {"<Name>": []} and never as a string; HorizontalRule, Null and
\* every CitationMode are written as the string of the variant name.
C9_PayloadlessEncoding ==
    pc = "encoded" =>
        /\ x[1] \in {"ListNumberStyle", "ListNumberDelim", "Alignment",
                     "QuoteType", "MathType"}
              => encoded = JObj1(x[2].tag, JArr(<<>>))
        /\ (x[1] = "Inline" /\ x[2].tag \in {"Space", "SoftBreak", "LineBreak"})
              => encoded = JObj1(x[2].tag, JArr(<<>>))
        /\ (x[1] = "Block" /\ x[2].tag \in {"HorizontalRule", "Null"})
              => encoded = JStr(x[2].tag)
        /\ x[1] = "CitationMode" => encoded = JStr(x[2].tag)

\* C9 witness: a ListNumberStyle has been written, as an object.
C9_Witness ==
    /\ pc = "encoded"
    /\ x = <<"ListNumberStyle", Mk("LowerRoman", <<>>)>>
    /\ encoded = JObj1("LowerRoman", JArr(<<>>))

-----------------------------------------------------------------------------
(* The text the external converter writes, as the Value it parses to: every *)
(* node is {"t": <Variant>, "c": <content>}, the content of a variant       *)
(* without fields being [] (the literal of tests::test_to_json).            *)

RECURSIVE Wire(_)
Wire(j) ==
    CASE j.k = "obj" /\ Len(j.v) = 1 -> TC(j.v[1][1], Wire(j.v[1][2]))
      [] j.k = "obj" /\ Len(j.v) # 1 ->
            JObj([i \in 1..Len(j.v) |-> <<j.v[i][1], Wire(j.v[i][2])>>])
      [] j.k = "arr" -> JArr([i \in 1..Len(j.v) |-> Wire(j.v[i])])
      [] j.k = "str" /\ j.v \in BlockUnits \cup CitationModes ->
            TC(j.v, JArr(<<>>))
      [] OTHER -> j

WireBlocks(bs) == Wire(EncBlocks(bs))

\* [] as Attr: no identifier, no classes, no pairs.
WireAttr == JArr(<<JStr("test"), JArr(<<>>), JArr(<<>>)>>)

\* The block array of tests::test_to_json.
HeaderWire ==
    JArr(<<TC("Header", JArr(<<JNum(1), WireAttr,
                               JArr(<<TC("Str", JStr("Test"))>>)>>))>>)

\* A Table node with the given alignments and widths and nothing else.
TableWire(aligns, widths) ==
    TC("Table", JArr(<<JArr(<<>>), JArr(aligns), JArr(widths),
                       JArr(<<>>), JArr(<<>>)>>))

AlignLeftWire == TC("AlignLeft", JArr(<<>>))

\* Block arrays holding a Table whose alignments and widths differ in
\* number.
MismatchedTables ==
    { JArr(<<TableWire(<<AlignLeftWire>>, <<>>)>>),
      JArr(<<TableWire(<<>>, <<JNum(1)>>)>>),
      JArr(<<TableWire(<<AlignLeftWire, AlignLeftWire>>, <<JNum(1)>>)>>) }

\* Block arrays holding a node the codec cannot read: no tag, a tag that is
\* not a string, an undeclared variant, too few fields, a number for a
\* String, and a unit variant written without c.
BadNodes ==
    { JArr(<<JObj1("c", JStr("Test"))>>),
      JArr(<<JObj(<< <<"c", JStr("Test")>>, <<"t", JNum(1)>> >>)>>),
      JArr(<<TC("Bogus", JArr(<<>>))>>),
      JArr(<<TC("Header", JArr(<<JNum(1), WireAttr>>))>>),
      JArr(<<TC("Plain", JArr(<<TC("Str", JNum(1))>>))>>),
      JArr(<<JObj1("t", JStr("HorizontalRule"))>>) }

WireBlockArrays ==
    { WireBlocks(<<b>>) : b \in Blocks }
      \cup { WireBlocks(bs) : bs \in BlockSeqs }
      \cup {HeaderWire, JNull} \cup MismatchedTables \cup BadNodes

EmptyMetaWire == JObj1("unMeta", JObj(<<>>))

\* Metadata as the converter writes it: every MetaValue, Inline and Block
\* in it is a t/c node.
WireFormMetas ==
    { JObj1("unMeta",
            JObj1("title",
                  TC("MetaInlines", JArr(<<TC("Str", JStr("Test"))>>)))),
      JObj1("unMeta", JObj1("title", TC("MetaString", JStr("test")))),
      JObj1("unMeta",
            JObj1("abstract",
                  TC("MetaBlocks",
                     JArr(<<TC("Plain",
                               JArr(<<TC("Str", JStr("Test"))>>))>>)))) }

\* Metadata: none, entries written by the converter, an entry in the form
\* of types.rs, and a value that is no object.
WireMetas ==
    { EmptyMetaWire,
      JObj1("unMeta", JObj1("title", JObj1("MetaString", JStr("test")))),
      JNull }
      \cup WireFormMetas

\* Arrays of n elements, n other than 2.
RECURSIVE WrongLength(_)
WrongLength(n) ==
    IF n = 0 THEN <<>>
    ELSE WrongLength(n - 1)
            \o <<IF n = 1 THEN EmptyMetaWire ELSE HeaderWire>>

WireValues ==
    { EmptyMetaWire, JNull, JNum(1), JStr("Test"), TC("Str", JStr("Test")) }
      \cup { JArr(WrongLength(n)) : n \in (0..MaxLen + 1) \ {2} }
      \cup { JArr(<<EmptyMetaWire, bs>>) : bs \in WireBlockArrays }
      \cup { JArr(<<m, HeaderWire>>) : m \in WireMetas }

\* What to_json returns: an io::Error, or text that is not JSON, or text
\* that parses to a Value.
ConverterOutputs ==
    { <<"ioerr">>, <<"text", <<"bad">> >> }
      \cup { <<"text", <<"json", w>> >> : w \in WireValues }

-----------------------------------------------------------------------------
(* deserialize (lib.rs 243-253).                                           *)

\* The Value before the text is parsed.
Unparsed == [k |-> "unparsed"]

\* A faulty length test: a longer array passes.
shape_at_least(arr) == Len(arr) >= 2

\* arr.len() != 2 is the error.
shape_ok(arr) == Len(arr) = 2

Init ==
    /\ pc = "to_json"
    /\ json = None
    /\ value = Unparsed
    /\ result = <<"running">>
    /\ newCalls = 0
    /\ entry = None /\ converted = None
    /\ node = None /\ fn = None /\ walked = None /\ fcalls = None
    /\ x = None /\ encoded = None /\ decoded = None

others == <<entry, converted, node, fn, walked, fcalls, x, encoded, decoded>>

\* let json = try!(to_json(markdown).map_err(..))
ToJson ==
    /\ pc = "to_json"
    /\ \E out \in ConverterOutputs :
          /\ json' = out
          /\ IF out[1] = "ioerr"
             THEN pc' = "done" /\ result' = <<"err", "io">>
             ELSE pc' = "from_str" /\ UNCHANGED result
    /\ UNCHANGED <<value, newCalls, others>>

\* let value: Value = try!(serde_json::from_str(&json).map_err(..))
FromStr ==
    /\ pc = "from_str"
    /\ IF json[2][1] = "bad"
       THEN pc' = "done" /\ result' = <<"err", "parse">> /\ UNCHANGED value
       ELSE pc' = "as_array" /\ value' = json[2][2] /\ UNCHANGED result
    /\ UNCHANGED <<json, newCalls, others>>

\* let arr = try!(value.as_array().ok_or("Not an array"))
AsArray ==
    /\ pc = "as_array"
    /\ IF value.k # "arr"
       THEN pc' = "done" /\ result' = <<"err", "Not an array">>
       ELSE pc' = "len" /\ UNCHANGED result
    /\ UNCHANGED <<json, value, newCalls, others>>

\* if arr.len() != 2 { return Err(String::from("Not valid Pandoc")) }
CheckLen ==
    /\ pc = "len"
    /\ IF ~shape_ok(value.v)
       THEN pc' = "done" /\ result' = <<"err", "Not valid Pandoc">>
       ELSE pc' = "new" /\ UNCHANGED result
    /\ UNCHANGED <<json, value, newCalls, others>>

\* let pandoc = Pandoc::new(arr[0].clone(), arr[1].clone()); Ok(pandoc)
New ==
    /\ pc = "new"
    /\ newCalls' = newCalls + 1
    /\ result' = Pandoc_new(value.v[1], value.v[2])
    /\ pc' = "done"
    /\ UNCHANGED <<json, value, others>>

Next == ToJson \/ FromStr \/ AsArray \/ CheckLen \/ New

Spec == Init /\ [][Next]_vars

-----------------------------------------------------------------------------
(* Claims about deserialize.                                               *)

TwoElements(w) == w.k = "arr" /\ Len(w.v) = 2

\* C7: a parsed value that is no array, or an array of a length other than
\* 2, ends the call with an error and Pandoc::new is never entered; a
\* Document is only ever built from an array of two elements.
C7_ShapeValidated ==
    /\ newCalls > 0 => TwoElements(value)
    /\ result[1] = "ok" => TwoElements(value)
    /\ (pc = "done" /\ value.k # "unparsed" /\ ~TwoElements(value))
          => result[1] = "err" /\ newCalls = 0

\* C7 witness: the call has ended on an array of three elements.
C7_Witness ==
    /\ pc = "done"
    /\ value.k = "arr" /\ Len(value.v) = 3
    /\ result = <<"err", "Not valid Pandoc">>
    /\ newCalls = 0

\* C8 (as claimed): when the codec cannot read a node of an array of two
\* elements, the call returns an Err, not a panic, and no Document.
C8_CodecFailureReturned ==
    (pc = "done" /\ newCalls = 1 /\ value.v[2] \in BadNodes)
        => result[1] = "err"

\* w is a Table node whose alignment and width arrays differ in length.
MismatchedTable(w) ==
    /\ w.k = "obj" /\ HasKey(w.v, "t") /\ HasKey(w.v, "c")
    /\ Get(w.v, "t") = JStr("Table")
    /\ Get(w.v, "c").k = "arr" /\ Len(Get(w.v, "c").v) = 5
    /\ Get(w.v, "c").v[2].k = "arr" /\ Get(w.v, "c").v[3].k = "arr"
    /\ Len(Get(w.v, "c").v[2].v) # Len(Get(w.v, "c").v[3].v)

\* C10 (as claimed): decoding a Table whose alignment and width arrays
\* differ in length fails; no Table comes out of it.
C10_TableColumnsChecked ==
    (/\ pc = "done"
     /\ newCalls = 1
     /\ value.v[2].k = "arr"
     /\ \E i \in 1..Len(value.v[2].v) : MismatchedTable(value.v[2].v[i]))
        => result[1] # "ok"

\* The metadata m with the value of every entry converted.
MetaEntriesConverted(m) ==
    LET u == Get(m.v, "unMeta")
    IN  JObj([i \in 1..Len(u.v) |-> <<u.v[i][1], convert_entry(u.v[i][2])>>])

\* C11 (as claimed): the t/c nodes of the metadata are converted before the
\* metadata is decoded, as those of the blocks are: metadata written by the
\* converter, next to blocks that decode, gives a Document whose metadata
\* is the decoding of the converted entries.
C11_MetaConverted ==
    (/\ pc = "done"
     /\ newCalls = 1
     /\ value.v[1] \in WireFormMetas
     /\ value.v[2] = HeaderWire)
        => /\ result[1] = "ok"
           /\ Ok(result[2][1]) = DecMetaMap(MetaEntriesConverted(value.v[1]))

\* The steps from one stage of deserialize to the next, or to the end of
\* the call: converter, parse, shape check (as_array, then len), decode.
StageOrder ==
    { <<"to_json", "from_str">>, <<"to_json", "done">>,
      <<"from_str", "as_array">>, <<"from_str", "done">>,
      <<"as_array", "len">>, <<"as_array", "done">>,
      <<"len", "new">>, <<"len", "done">>,
      <<"new", "done">> }

\* C12 (as claimed): every step of a call goes from a stage to the stage
\* after it or ends the call, so that no stage runs twice or after a
\* failure and the decoder is entered at most once; a call that ends
\* without a Document ends with an error; a Document is returned only by
\* the decoder, the last stage.
C12_StagesInOrder ==
    [][/\ <<pc, pc'>> \in StageOrder
       /\ newCalls' <= 1
       /\ pc' # "done" => result' = <<"running">>
       /\ (pc' = "done" /\ result'[1] # "ok") => result'[1] = "err"
       /\ (pc' = "done" /\ result'[1] = "ok") => (pc = "new" /\ newCalls' = 1)
      ]_vars

=============================================================================
